---- MODULE Spec2Model ----
(***************************************************************************)
(* Model of compression.go: the permessage-deflate session wrappers        *)
(* (flateWriteWrapper, flateReadWrapper), the trailer-truncating sink      *)
(* (truncWriter), the sliding dictionary (addDict) and the shared pools    *)
(* (flateWriterPools, flateReaderPool).                                    *)
(*                                                                         *)
(* Bytes are naturals in 0..255.  A Go pointer is NIL or a positive id.    *)
(* A Go error value is a string, "nil" for no error.                       *)
(***************************************************************************)
EXTENDS Integers, Sequences, FiniteSets, TLC

\* ----------------------------------------------------------------- bounds
\* longest chunk handed to truncWriter.Write in SpecTrunc
MaxChunk == 5
\* longest stream written to one truncWriter in SpecTrunc
MaxStream == 9
\* largest number of downstream writes a failing sink accepts first
MaxOk == 2
\* plaintext bytes the compressor gathers before it emits a block
MaxStoreBlock == 1
\* the dictionary window; the constant is declared outside compression.go
maxWindowBits == 3
\* concurrent sessions, compressor and decompressor instances, dictionary
\* handles
NumSess == 2
MaxComp == 2
MaxDec == 2
NumDicts == 2
\* plaintext bytes written to one write session; longest chunk; longest
\* buffer handed to Read
MaxPlain == 2
MaxWChunk == 2
MaxBuf == 2

\* -------------------------------------------------------------- constants
NIL == 0
minCompressionLevel == -2
maxCompressionLevel == 9
defaultCompressionLevel == 1

Min(a, b) == IF a < b THEN a ELSE b
Max(a, b) == IF a > b THEN a ELSE b

\* s[from+1 .. ] : Go's s[from:]
Drop(s, from) == SubSeq(s, from + 1, Len(s))
\* s[1 .. to] : Go's s[:to]
Take(s, to) == SubSeq(s, 1, to)
\* the last k elements of s (all of s when it is shorter)
LastN(s, k) == Drop(s, Max(0, Len(s) - k))

\* the sync-flush trailer compared in flateWriteWrapper.Close
trailer == <<0, 0, 255, 255>>
\* the suffix appended to the source by the decompress constructors
tail_m == <<1, 0, 0, 255, 255>>
tail == <<0, 0, 255, 255, 1, 0, 0, 255, 255>>

\* ------------------------------------------------------- destination sink
\* The io.WriteCloser handed to the compress constructors.  `limited` and
\* `okLeft` decide which of its Write calls fail, `closeErr` whether its
\* Close fails; `closed` counts the Close calls it received.
NewSink(limited, okLeft, closeErr) ==
    [data |-> <<>>, closed |-> 0, limited |-> limited, okLeft |-> okLeft,
     closeErr |-> closeErr]

SinkWrite(sk, b) ==
    IF sk.limited /\ sk.okLeft = 0
    THEN [w |-> sk, n |-> 0, err |-> "errSinkWrite"]
    ELSE [w |-> [sk EXCEPT !.data = @ \o b,
                           !.okLeft = IF sk.limited THEN @ - 1 ELSE @],
          n |-> Len(b), err |-> "nil"]

SinkClose(sk) ==
    [w |-> [sk EXCEPT !.closed = @ + 1],
     err |-> IF sk.closeErr THEN "errSinkClose" ELSE "nil"]

\* ------------------------------------------------------------ truncWriter
NewTruncWriter(sk) == [w |-> sk, n |-> 0, p |-> <<0, 0, 0, 0>>]

\* copy(dst[at:], src): dst with src laid over it from index at (0-based),
\* as far as dst reaches
CopyAt(dst, at, src) ==
    [i \in 1..Len(dst) |->
        IF i > at /\ i - at <= Len(src) THEN src[i - at] ELSE dst[i]]

\* p[len(p)-m:], the bytes truncWriter.Write keeps of a chunk
truncKeep_m(p, m) == Take(p, m)
truncKeep(p, m) == Drop(p, Len(p) - m)

\* truncWriter.Write, step by step; every step yields the truncWriter after
\* the call, the count and the error it returns.  t and p are w and p as the
\* step finds them, n the bytes copied into the buffer so far.
\* lines 119-122: the buffer shifted by m, the last m bytes of p kept, the rest
\* forwarded; r2 is the result of w.w.Write(p[:len(p)-m])
truncForwarded(t, p, n, m, r2) ==
    [tw  |-> [t EXCEPT !.p = CopyAt(CopyAt(t.p, 0, Drop(t.p, m)),
                                    Len(t.p) - m, truncKeep(p, m)),
                       !.w = r2.w],
     n   |-> n + r2.n,
     err |-> r2.err]

\* lines 115-117: r1 is the result of w.w.Write(w.p[:m])
truncSpilled(t, p, n, m, r1) ==
    IF r1.err # "nil"
    THEN [tw |-> [t EXCEPT !.w = r1.w], n |-> n + r1.n, err |-> r1.err]
    ELSE truncForwarded(t, p, n, m, SinkWrite(r1.w, Take(p, Len(p) - m)))

\* lines 110-113: m = min(len(p), len(w.p))
truncSpill(t, p, n, m) == truncSpilled(t, p, n, m, SinkWrite(t.w, Take(t.p, m)))

\* lines 105-107: after the copy into the buffer
truncFilled(t, p, n) ==
    IF Len(p) = 0 THEN [tw |-> t, n |-> n, err |-> "nil"]
    ELSE truncSpill(t, p, n, Min(Len(p), Len(t.p)))

\* lines 102-104: n = copy(w.p[w.n:], p)
truncFill(t, p, n) ==
    truncFilled([t EXCEPT !.p = CopyAt(t.p, t.n, Take(p, n)), !.n = t.n + n],
                Drop(p, n), n)

truncWriter_Write(t, p) ==
    IF t.n < Len(t.p)
    THEN truncFill(t, p, Min(Len(t.p) - t.n, Len(p)))
    ELSE truncSpill(t, p, 0, Min(Len(p), Len(t.p)))

\* ------------------------------------------------- flate.Writer (primitive)
\* The DEFLATE compressor the wrappers drive through NewWriter, NewWriterDict,
\* Reset, Write and Flush.  It is modelled at block granularity: plaintext is
\* gathered in `window` and leaves as one block when the window is full or on
\* a sync flush.  A block is a stored block (header 00, LEN, NLEN, raw bytes)
\* or, at a level that searches the history, a back-reference block
\* (header 02, length, distance) when the data already stands in the history
\* (preset dictionary followed by the plaintext compressed so far).  A sync
\* flush ends with the empty stored block 00 00 00 FF FF.  `dst` is the
\* truncWriter (named by its session) the compressor writes into, `err` its
\* sticky write error.
UsesHistory(level) == level >= 2

flate_NewWriterDict(dst, level, dict) ==
    [level |-> level, dst |-> dst, window |-> <<>>,
     hist |-> IF UsesHistory(level) THEN dict ELSE <<>>, err |-> "nil"]

flate_NewWriter(dst, level) == flate_NewWriterDict(dst, level, <<>>)

\* fw.Reset(tw): history and error cleared, output rebound
flate_Reset_m(c, dst) == [c EXCEPT !.window = <<>>, !.err = "nil"]
flate_Reset(c, dst) ==
    [c EXCEPT !.dst = dst, !.window = <<>>, !.hist = <<>>, !.err = "nil"]

\* one write of the compressor into its truncWriter; ct = [c, t, em]:
\* compressor, truncWriter, and the bytes emitted into the truncWriter so far
flate_emitted(ct, b, r) ==
    [c |-> [ct.c EXCEPT !.err = r.err], t |-> r.tw, em |-> ct.em \o b]

flate_emit(ct, b) ==
    IF ct.c.err # "nil" THEN ct ELSE flate_emitted(ct, b, truncWriter_Write(ct.t, b))

MinOf(S) == CHOOSE x \in S : \A y \in S : x <= y

flate_block(ct, D) ==
    LET H     == ct.c.hist
        dists == {d \in Len(D)..Len(H) :
                     SubSeq(H, Len(H) - d + 1, Len(H) - d + Len(D)) = D}
        ct1   == IF UsesHistory(ct.c.level) /\ Len(D) > 0 /\ dists # {}
                 THEN flate_emit(ct, <<2, Len(D), MinOf(dists)>>)
                 ELSE flate_emit(flate_emit(ct, <<0, Len(D), 0, 255 - Len(D), 255>>), D)
    IN  [ct1 EXCEPT !.c.hist = H \o D, !.c.window = <<>>]

flate_step(ct, sync) ==
    IF Len(ct.c.window) > 0 /\ (Len(ct.c.window) >= MaxStoreBlock \/ sync)
    THEN flate_block(ct, ct.c.window)
    ELSE ct

RECURSIVE flate_writeLoop(_, _)
\* the window takes what it has room for; ct1 is the compressor after the
\* block it may have had to emit first
flate_fillWindow(ct1, b, k) ==
    IF ct1.c.err # "nil" THEN [ct1 EXCEPT !.c.window = @ \o Take(b, k)]
    ELSE flate_writeLoop([ct1 EXCEPT !.c.window = @ \o Take(b, k)], Drop(b, k))

flate_room(ct1, b) ==
    flate_fillWindow(ct1, b, Min(Len(b), MaxStoreBlock - Len(ct1.c.window)))

flate_writeLoop(ct, b) ==
    IF Len(b) = 0 THEN ct ELSE flate_room(flate_step(ct, FALSE), b)

flate_written(x, b) ==
    [ct |-> x, n |-> IF x.c.err = "nil" THEN Len(b) ELSE 0, err |-> x.c.err]

flate_Write(ct, b) ==
    IF ct.c.err # "nil" THEN [ct |-> ct, n |-> 0, err |-> ct.c.err]
    ELSE flate_written(flate_writeLoop(ct, b), b)

\* the empty stored block that ends a sync flush
flate_syncMarker(a) ==
    IF a.c.err = "nil" THEN flate_emit(a, <<0, 0, 0, 255, 255>>) ELSE a

flate_flushed(b) == [ct |-> b, err |-> b.c.err]

flate_Flush(ct) ==
    IF ct.c.err # "nil" THEN [ct |-> ct, err |-> ct.c.err]
    ELSE flate_flushed(flate_syncMarker(flate_step(ct, TRUE)))

\* ------------------------------------------------- flate reader (primitive)
\* The decompressor: `src` is what is left of its source, `hist` the preset
\* dictionary followed by everything decoded, `toRead` decoded bytes not yet
\* handed out, `err` the sticky error (io.EOF after the final block).
flate_NewReader == [src |-> <<>>, hist |-> <<>>, toRead |-> <<>>, err |-> "nil"]

flate_ReaderReset_m(f, src, dict) == [f EXCEPT !.src = src, !.toRead = <<>>, !.err = "nil"]
flate_ReaderReset(f, src, dict) ==
    [src |-> src, hist |-> dict, toRead |-> <<>>, err |-> "nil"]

\* decode blocks up to the final block or the first error
RECURSIVE Inflate(_, _, _)
Inflate(src, hist, out) ==
    IF Len(src) = 0 THEN [out |-> out, err |-> "ErrUnexpectedEOF"]
    ELSE IF src[1] \in {0, 1} THEN
        IF Len(src) < 5 THEN [out |-> out, err |-> "ErrUnexpectedEOF"]
        ELSE IF src[4] # 255 - src[2] \/ src[5] # 255 - src[3]
        THEN [out |-> out, err |-> "CorruptInputError"]
        ELSE LET n == src[2] + 256 * src[3]
             IN  IF Len(src) < 5 + n
                 THEN [out |-> out \o Drop(src, 5), err |-> "ErrUnexpectedEOF"]
                 ELSE IF src[1] = 1
                 THEN [out |-> out \o SubSeq(src, 6, 5 + n), err |-> "EOF"]
                 ELSE Inflate(Drop(src, 5 + n), hist, out \o SubSeq(src, 6, 5 + n))
    ELSE IF src[1] = 2 THEN
        IF Len(src) < 3 THEN [out |-> out, err |-> "ErrUnexpectedEOF"]
        ELSE LET n == src[2]
                 d == src[3]
                 W == hist \o out
             IN  IF d > Len(W) \/ d < n \/ d = 0
                 THEN [out |-> out, err |-> "CorruptInputError"]
                 ELSE Inflate(Drop(src, 3), hist,
                              out \o SubSeq(W, Len(W) - d + 1, Len(W) - d + n))
    ELSE [out |-> out, err |-> "CorruptInputError"]

\* hand out up to k decoded bytes
flate_deliver(f, k) ==
    LET n    == Min(k, Len(f.toRead))
        rest == Drop(f.toRead, n)
    IN  [f |-> [f EXCEPT !.toRead = rest], n |-> n, data |-> Take(f.toRead, n),
         err |-> IF Len(rest) = 0 THEN f.err ELSE "nil"]

\* fr.Read(p) with len(p) = k
flate_Read(f, k) ==
    IF Len(f.toRead) > 0 THEN flate_deliver(f, k)
    ELSE IF f.err # "nil" THEN [f |-> f, n |-> 0, data |-> <<>>, err |-> f.err]
    ELSE LET r  == Inflate(f.src, f.hist, <<>>)
             f1 == [src |-> <<>>, hist |-> f.hist \o r.out, toRead |-> r.out,
                    err |-> r.err]
         IN  IF Len(r.out) > 0 THEN flate_deliver(f1, k)
             ELSE [f |-> f1, n |-> 0, data |-> <<>>, err |-> r.err]

\* fr.Close()
flate_ReaderClose(f) == IF f.err = "EOF" THEN "nil" ELSE f.err

\* ------------------------------------------------------------ dictionary
\* addDict (both wrappers): append, then keep the last maxWindowBits bytes
addDict_m(d, b) == d \o b
addDict(d, b) ==
    LET d1 == d \o b
    IN  IF Len(d1) > maxWindowBits THEN Drop(d1, Len(d1) - maxWindowBits) ELSE d1

isValidCompressionLevel(level) ==
    minCompressionLevel <= level /\ level <= maxCompressionLevel

\* index into flateWriterPools, plus one (NIL is no pool)
PoolOf(level) == level - minCompressionLevel + 1
NumPools == maxCompressionLevel - minCompressionLevel + 1

\* lines 157-164 of flateWriteWrapper.Close: what Close returns, from the
\* flush error, the trailer comparison and the sink's close error
CloseResult_m(err1, trailerOk, err2) == err2
CloseResult(err1, trailerOk, err2) ==
    IF ~trailerOk THEN "errInternal"
    ELSE IF err1 # "nil" THEN err1 ELSE err2

TwBytes == {0, 255}
\* plaintext byte values, and the dictionary contents a connection starts with
PlainBytes == {0, 255}
DictSeeds == {<<>>, <<0, 255>>}

RECURSIVE SeqsUpTo(_, _)
SeqsUpTo(S, k) ==
    IF k = 0 THEN {<<>>}
    ELSE LET shorter == SeqsUpTo(S, k - 1)
         IN  shorter \cup {Append(s, x) : s \in {q \in shorter : Len(q) = k - 1}, x \in S}

WSess == 1..NumSess
RSess == 1..NumSess
CompIds == 1..MaxComp
DecIds == 1..MaxDec
DictIds == 1..NumDicts

VARIABLES
    tw0,      \* SpecTrunc: a truncWriter driven directly
    twIn,     \* SpecTrunc: the chunks passed to tw0.Write, concatenated
    twLast,   \* SpecTrunc: the last call: chunk length, count and error returned
    ws,       \* the flateWriteWrapper of each write session
    rs,       \* the flateReadWrapper of each read session
    comp,     \* the flate.Writer instances
    decomp,   \* the flate reader instances
    flateWriterPools,   \* per level: how often each compressor is in the pool
    flateReaderPool,    \* how often each decompressor is in the pool
    dicts,    \* the byte slice behind each dictionary handle
    fed,      \* per handle: its first contents and every chunk added since
    last      \* the last call made: who, what, and what it returned

vars == <<tw0, twIn, twLast, ws, rs, comp, decomp, flateWriterPools,
          flateReaderPool, dicts, fed, last>>

truncVars == <<tw0, twIn, twLast>>
sessVars == <<ws, rs, comp, decomp, flateWriterPools, flateReaderPool, dicts,
              fed, last>>

NoWriter ==
    [made |-> FALSE, fw |-> NIL, tw |-> NewTruncWriter(NewSink(FALSE, 0, FALSE)),
     p |-> NIL, hasDict |-> FALSE, dict |-> NIL,
     level |-> 0, got |-> NIL, em |-> <<>>, plain |-> <<>>, closeCalled |-> FALSE,
     closeRes |-> "none", puts |-> 0, flushes |-> 0]

NoReader ==
    [made |-> FALSE, fr |-> NIL, hasDict |-> FALSE, dict |-> NIL,
     got |-> NIL, out |-> <<>>, closeCalled |-> FALSE, eof |-> FALSE,
     puts |-> 0, frCloses |-> 0]

NoCall == [side |-> "-", op |-> "-", s |-> 0, n |-> 0, err |-> "nil", level |-> 0,
           dict |-> NIL]

SessionsIdle(d0) ==
    /\ ws = [s \in WSess |-> NoWriter]
    /\ rs = [r \in RSess |-> NoReader]
    /\ comp = [c \in CompIds |-> [alloc |-> FALSE, st |-> flate_NewWriter(NIL, 0)]]
    /\ decomp = [d \in DecIds |-> [alloc |-> FALSE, st |-> flate_NewReader]]
    /\ flateWriterPools = [i \in 1..NumPools |-> [c \in CompIds |-> 0]]
    /\ flateReaderPool = [d \in DecIds |-> 0]
    /\ dicts = [d \in DictIds |-> d0]
    /\ fed = [d \in DictIds |-> d0]
    /\ last = NoCall

InitTruncIdle ==
    /\ tw0 = NewTruncWriter(NewSink(FALSE, 0, FALSE))
    /\ twIn = <<>>
    /\ twLast = [len |-> 0, n |-> 0, err |-> "nil", calls |-> 0]

\* ------------------------------------------------------------- SpecTrunc
InitTrunc ==
    /\ \E limited \in BOOLEAN, okLeft \in 0..MaxOk :
          /\ (~limited => okLeft = 0)
          /\ tw0 = NewTruncWriter(NewSink(limited, okLeft, FALSE))
    /\ twIn = <<>>
    /\ twLast = [len |-> 0, n |-> 0, err |-> "nil", calls |-> 0]
    /\ SessionsIdle(<<>>)

TruncWrite(chunk) ==
    /\ twLast.err = "nil"
    /\ Len(twIn) + Len(chunk) <= MaxStream
    /\ LET r == truncWriter_Write(tw0, chunk)
       IN  /\ tw0' = r.tw
           /\ twIn' = twIn \o chunk
           /\ twLast' = [len |-> Len(chunk), n |-> r.n, err |-> r.err,
                         calls |-> Min(twLast.calls + 1, 2)]
    /\ UNCHANGED sessVars

NextTrunc == \E chunk \in SeqsUpTo(TwBytes, MaxChunk) : TruncWrite(chunk)

SpecTrunc == InitTrunc /\ [][NextTrunc]_vars

\* ------------------------------------------------------ write sessions
\* the compressor fw with the truncWriter it is bound to
Pipe(fw) == [c |-> comp[fw].st, t |-> ws[comp[fw].st.dst].tw, em |-> ws[comp[fw].st.dst].em]

\* sync.Pool.Put / the removal done by sync.Pool.Get
PoolPut(pool, id) == [pool EXCEPT ![id] = @ + 1]
PoolTake_m(pool, id) == pool
PoolTake(pool, id) == [pool EXCEPT ![id] = @ - 1]

Call(side, op, s, n, err, level) ==
    [side |-> side, op |-> op, s |-> s, n |-> n, err |-> err, level |-> level,
     dict |-> NIL]

\* a call of a constructor, with the dictionary handle it was given
CallNew(side, op, s, err, level, dict) ==
    [Call(side, op, s, 0, err, level) EXCEPT !.dict = dict]

\* the wrapper both compress constructors return
NewWriteWrapper(sk, fw, p, hasDict, dict, level) ==
    [NoWriter EXCEPT !.made = TRUE, !.fw = fw, !.tw = NewTruncWriter(sk), !.p = p,
                     !.hasDict = hasDict, !.dict = dict, !.level = level, !.got = fw]

\* compressNoContextTakeover(w, level, dict); sk is the sink w.  The index
\* expression of line 64 panics for a level outside the array.
compressNoContextTakeover(s, sk, level, dict) ==
    /\ ~ws[s].made
    /\ IF ~(PoolOf(level) \in 1..NumPools)
       THEN /\ last' = CallNew("w", "compressNoContextTakeover", s, "panic", level, dict)
            /\ UNCHANGED <<ws, comp, flateWriterPools>>
       ELSE /\ \/ \E fw \in CompIds :            \* p.Get() found an idle writer
                    /\ flateWriterPools[PoolOf(level)][fw] > 0
                    /\ flateWriterPools' =
                          [flateWriterPools EXCEPT ![PoolOf(level)] = PoolTake(@, fw)]
                    /\ comp' = [comp EXCEPT ![fw].st = flate_Reset(@, s)]
                    /\ ws' = [ws EXCEPT ![s] =
                                NewWriteWrapper(sk, fw, PoolOf(level), FALSE, NIL, level)]
               \/ \E fw \in CompIds :            \* p.Get() returned nil
                    /\ ~comp[fw].alloc
                    /\ \A c \in CompIds : c < fw => comp[c].alloc
                    /\ comp' = [comp EXCEPT ![fw] =
                                  [alloc |-> TRUE, st |-> flate_NewWriter(s, level)]]
                    /\ ws' = [ws EXCEPT ![s] =
                                NewWriteWrapper(sk, fw, PoolOf(level), FALSE, NIL, level)]
                    /\ UNCHANGED flateWriterPools
            /\ last' = CallNew("w", "compressNoContextTakeover", s, "nil", level, dict)
    /\ UNCHANGED <<rs, decomp, flateReaderPool, dicts, fed>>
    /\ UNCHANGED truncVars

\* compressContextTakeover(w, level, dict): flate.NewWriterDict returns
\* (nil, error) for a level outside the range, and the error is dropped
compressContextTakeover(s, sk, level, dict) ==
    /\ ~ws[s].made
    /\ IF ~isValidCompressionLevel(level)
       THEN /\ ws' = [ws EXCEPT ![s] = NewWriteWrapper(sk, NIL, NIL, TRUE, dict, level)]
            /\ UNCHANGED comp
       ELSE \E fw \in CompIds :
              /\ ~comp[fw].alloc
              /\ \A c \in CompIds : c < fw => comp[c].alloc
              /\ comp' = [comp EXCEPT ![fw] =
                            [alloc |-> TRUE,
                             st |-> flate_NewWriterDict(s, level,
                                       IF dict # NIL THEN dicts[dict] ELSE <<>>)]]
              /\ ws' = [ws EXCEPT ![s] = NewWriteWrapper(sk, fw, NIL, TRUE, dict, level)]
    /\ last' = CallNew("w", "compressContextTakeover", s, "nil", level, dict)
    /\ UNCHANGED <<rs, decomp, flateWriterPools, flateReaderPool, dicts, fed>>
    /\ UNCHANGED truncVars

\* flateWriteWrapper.Write(p)
flateWriteWrapper_Write(s, p) ==
    /\ ws[s].made
    /\ IF ws[s].fw = NIL
       THEN /\ last' = Call("w", "Write", s, 0, "errWriteClosed", 0)
            /\ UNCHANGED <<ws, comp, dicts, fed>>
       ELSE IF ws[s].hasDict /\ ws[s].dict = NIL
       THEN \* addDict dereferences the nil handle
            /\ last' = Call("w", "Write", s, 0, "panic", 0)
            /\ UNCHANGED <<ws, comp, dicts, fed>>
       ELSE /\ Len(ws[s].plain) + Len(p) <= MaxPlain
            /\ IF ws[s].hasDict
               THEN /\ dicts' = [dicts EXCEPT ![ws[s].dict] = addDict(@, p)]
                    /\ fed' = [fed EXCEPT ![ws[s].dict] = @ \o p]
               ELSE UNCHANGED <<dicts, fed>>
            /\ \E fw \in {ws[s].fw} : \E d \in {comp[fw].st.dst} :
               \E r \in {flate_Write(Pipe(fw), p)} :
                   /\ comp' = [comp EXCEPT ![fw].st = r.ct.c]
                   /\ ws' = [[ws EXCEPT ![d].tw = r.ct.t, ![d].em = r.ct.em]
                                EXCEPT ![s].plain = @ \o p]
                   /\ last' = Call("w", "Write", s, r.n, r.err, 0)
    /\ UNCHANGED <<rs, decomp, flateWriterPools, flateReaderPool>>
    /\ UNCHANGED truncVars

\* lines 152-154 of flateWriteWrapper.Close: the pools after
\* `if !w.hasDict { w.p.Put(w.fw) }`
ClosePut_m(pools, w, fw) == [pools EXCEPT ![PoolOf(w.level)] = PoolPut(@, fw)]
ClosePut_default(pools, w, fw) ==
    IF ~w.hasDict
    THEN [pools EXCEPT ![PoolOf(defaultCompressionLevel)] = PoolPut(@, fw)]
    ELSE pools
ClosePut(pools, w, fw) ==
    IF ~w.hasDict THEN [pools EXCEPT ![w.p] = PoolPut(@, fw)] ELSE pools

\* flateWriteWrapper.Close()
flateWriteWrapper_Close(s) ==
    /\ ws[s].made
    /\ IF ws[s].fw = NIL
       THEN /\ last' = Call("w", "Close", s, 0, "errWriteClosed", 0)
            /\ ws' = [ws EXCEPT ![s].closeCalled = TRUE,
                                ![s].closeRes = IF @ = "none" THEN "errWriteClosed" ELSE @]
            /\ UNCHANGED <<comp, flateWriterPools>>
       ELSE \E fw \in {ws[s].fw} : \E d \in {comp[fw].st.dst} :
            \E fl \in {flate_Flush(Pipe(fw))} :
            \E ws1 \in {[ws EXCEPT ![d].tw = fl.ct.t, ![d].em = fl.ct.em]} :
            \E ok \in {ws1[s].tw.p = trailer} :
            \E cl \in {SinkClose(ws1[s].tw.w)} :
            \E res \in {CloseResult(fl.err, ok, IF ok THEN cl.err ELSE "nil")} :
                /\ comp' = [comp EXCEPT ![fw].st = fl.ct.c]
                /\ flateWriterPools' = ClosePut(flateWriterPools, ws[s], fw)
                /\ ws' = [ws1 EXCEPT ![s].fw = NIL,
                                     ![s].tw.w = IF ok THEN cl.w ELSE @,
                                     ![s].closeCalled = TRUE,
                                     ![s].closeRes = res,
                                     ![s].flushes = @ + 1,
                                     ![s].puts = IF ws[s].hasDict THEN @ ELSE @ + 1]
                /\ last' = Call("w", "Close", s, 0, res, 0)
    /\ UNCHANGED <<rs, decomp, flateReaderPool, dicts, fed>>
    /\ UNCHANGED truncVars

\* ------------------------------------------------------- read sessions
\* io.MultiReader(r, strings.NewReader(tail)), src the bytes r delivers
Source(src) == src \o tail

NewReadWrapper(fr, hasDict, dict) ==
    [NoReader EXCEPT !.made = TRUE, !.fr = fr, !.hasDict = hasDict, !.dict = dict,
                     !.got = fr]

\* flateReaderPool.Get() followed by Reset(source, seed): the pool hands out
\* an idle reader or the one its New function makes
GetReader(r, src, seed, hasDict, dict) ==
    /\ \/ \E fr \in DecIds :
            /\ flateReaderPool[fr] > 0
            /\ flateReaderPool' = PoolTake(flateReaderPool, fr)
            /\ decomp' = [decomp EXCEPT ![fr].st = flate_ReaderReset(@, Source(src), seed)]
            /\ rs' = [rs EXCEPT ![r] = NewReadWrapper(fr, hasDict, dict)]
       \/ \E fr \in DecIds :
            /\ ~decomp[fr].alloc
            /\ \A c \in DecIds : c < fr => decomp[c].alloc
            /\ decomp' = [decomp EXCEPT ![fr] =
                            [alloc |-> TRUE,
                             st |-> flate_ReaderReset(flate_NewReader, Source(src), seed)]]
            /\ rs' = [rs EXCEPT ![r] = NewReadWrapper(fr, hasDict, dict)]
            /\ UNCHANGED flateReaderPool

\* the seed handed to Reset by decompressNoContextTakeover (line 37) and by
\* decompressContextTakeover (lines 50-54)
Seed_m(hasDict, dict) == IF dict # NIL THEN dicts[dict] ELSE <<>>
Seed(hasDict, dict) == IF hasDict /\ dict # NIL THEN dicts[dict] ELSE <<>>

\* decompressNoContextTakeover(r, dict)
decompressNoContextTakeover(r, src, dict) ==
    /\ ~rs[r].made
    /\ GetReader(r, src, Seed(FALSE, dict), FALSE, NIL)
    /\ last' = CallNew("r", "decompressNoContextTakeover", r, "nil", 0, dict)
    /\ UNCHANGED <<ws, comp, flateWriterPools, dicts, fed>>
    /\ UNCHANGED truncVars

\* decompressContextTakeover(r, dict)
decompressContextTakeover(r, src, dict) ==
    /\ ~rs[r].made
    /\ GetReader(r, src, Seed(TRUE, dict), TRUE, dict)
    /\ last' = CallNew("r", "decompressContextTakeover", r, "nil", 0, dict)
    /\ UNCHANGED <<ws, comp, flateWriterPools, dicts, fed>>
    /\ UNCHANGED truncVars

\* the body of flateReadWrapper.Close once r.fr is known not to be nil:
\* the wrapper and the pool afterwards, and the error returned
ReadWrapperClose_keepFr(w, pool) ==
    [w    |-> [w EXCEPT !.closeCalled = TRUE, !.frCloses = @ + 1,
                        !.puts = IF w.hasDict THEN @ ELSE @ + 1],
     pool |-> IF ~w.hasDict THEN PoolPut(pool, w.fr) ELSE pool]
ReadWrapperClose_noPut(w, pool) ==
    [w    |-> [w EXCEPT !.fr = NIL, !.closeCalled = TRUE, !.frCloses = @ + 1],
     pool |-> pool]
ReadWrapperClose(w, pool) ==
    [w    |-> [w EXCEPT !.fr = NIL, !.closeCalled = TRUE, !.frCloses = @ + 1,
                        !.puts = IF w.hasDict THEN @ ELSE @ + 1],
     pool |-> IF ~w.hasDict THEN PoolPut(pool, w.fr) ELSE pool]

\* lines 198-202 of flateReadWrapper.Read: whether the bytes read go into
\* the dictionary; w is the wrapper as Read found it, n and err what fr.Read
\* returned
ReadAdds_m(w, n, err) == w.hasDict /\ n > 0 /\ err # "EOF"
ReadAdds(w, n, err) == w.hasDict /\ n > 0

\* flateReadWrapper.Read(p) with len(p) = k
flateReadWrapper_Read(r, k) ==
    /\ rs[r].made
    /\ IF rs[r].fr = NIL
       THEN /\ last' = Call("r", "Read", r, 0, "ErrClosedPipe", 0)
            /\ UNCHANGED <<rs, decomp, flateReaderPool, dicts, fed>>
       ELSE LET fr  == rs[r].fr
                x   == flate_Read(decomp[fr].st, k)
                w1  == [rs[r] EXCEPT !.out = @ \o x.data,
                                     !.eof = @ \/ x.err = "EOF"]
                c   == IF x.err = "EOF" THEN ReadWrapperClose(w1, flateReaderPool)
                       ELSE [w |-> w1, pool |-> flateReaderPool]
                add == ReadAdds(rs[r], x.n, x.err)
            IN  /\ decomp' = [decomp EXCEPT ![fr].st = x.f]
                /\ rs' = [rs EXCEPT ![r] = c.w]
                /\ flateReaderPool' = c.pool
                /\ IF add /\ rs[r].dict # NIL
                   THEN /\ dicts' = [dicts EXCEPT ![rs[r].dict] = addDict(@, x.data)]
                        /\ fed' = [fed EXCEPT ![rs[r].dict] = @ \o x.data]
                   ELSE UNCHANGED <<dicts, fed>>
                /\ last' = Call("r", "Read", r, x.n,
                                IF add /\ rs[r].dict = NIL THEN "panic" ELSE x.err, 0)
    /\ UNCHANGED <<ws, comp, flateWriterPools>>
    /\ UNCHANGED truncVars

\* flateReadWrapper.Close()
flateReadWrapper_Close(r) ==
    /\ rs[r].made
    /\ IF rs[r].fr = NIL
       THEN /\ last' = Call("r", "Close", r, 0, "ErrClosedPipe", 0)
            /\ rs' = [rs EXCEPT ![r].closeCalled = TRUE]
            /\ UNCHANGED flateReaderPool
       ELSE LET c == ReadWrapperClose(rs[r], flateReaderPool)
            IN  /\ rs' = [rs EXCEPT ![r] = c.w]
                /\ flateReaderPool' = c.pool
                /\ last' = Call("r", "Close", r, 0,
                                flate_ReaderClose(decomp[rs[r].fr].st), 0)
    /\ UNCHANGED <<ws, comp, decomp, flateWriterPools, dicts, fed>>
    /\ UNCHANGED truncVars

\* ------------------------------------------------------------------ Spec
\* One connection: a write session, driven call by call with every input,
\* then a read session over the bytes its sink received.
LevelInputs == {minCompressionLevel - 1, defaultCompressionLevel, 2,
                maxCompressionLevel + 1}
WDictArgs == {NIL, 1}
RDictArgs == {NIL, NumDicts}
Sinks == {NewSink(FALSE, 0, FALSE), NewSink(FALSE, 0, TRUE)}
            \cup {NewSink(TRUE, k, FALSE) : k \in 0..MaxOk}
Chunks == SeqsUpTo(PlainBytes, MaxWChunk)

Init == InitTruncIdle /\ \E d0 \in DictSeeds : SessionsIdle(d0)

Next ==
    \/ \E sk \in Sinks, level \in LevelInputs, dict \in WDictArgs :
          compressNoContextTakeover(1, sk, level, dict)
    \/ \E sk \in Sinks, level \in LevelInputs, dict \in WDictArgs :
          compressContextTakeover(1, sk, level, dict)
    \/ \E p \in Chunks : flateWriteWrapper_Write(1, p)
    \/ flateWriteWrapper_Close(1)
    \/ \E dict \in RDictArgs :
          ws[1].closeCalled /\ decompressNoContextTakeover(1, ws[1].tw.w.data, dict)
    \/ \E dict \in RDictArgs :
          ws[1].closeCalled /\ decompressContextTakeover(1, ws[1].tw.w.data, dict)
    \/ \E k \in 0..MaxBuf : flateReadWrapper_Read(1, k)
    \/ flateReadWrapper_Close(1)

Spec == Init /\ [][Next]_vars

\* -------------------------------------------------------------- SpecPool
\* Concurrent sessions, each a write session or a read session, over the
\* shared pools; any interleaving of their calls.
PoolLevels == {defaultCompressionLevel, 2}
PoolChunks == {<<0>>}

\* what the sink receives of message P from a session that succeeds
Compress(level, dict, P) ==
    LET ct0 == [c |-> flate_NewWriterDict(NIL, level, dict),
                t |-> NewTruncWriter(NewSink(FALSE, 0, FALSE)), em |-> <<>>]
    IN  flate_Flush(flate_Write(ct0, P).ct).ct.t.w.data

\* source of the read sessions: one whole message
Wires == {Compress(defaultCompressionLevel, <<>>, <<0>>)}

NextPool ==
    \/ \E s \in WSess, level \in PoolLevels :
          ~rs[s].made
          /\ compressNoContextTakeover(s, NewSink(FALSE, 0, FALSE), level, NIL)
    \/ \E s \in WSess, p \in PoolChunks :
          ws[s].plain = <<>> /\ flateWriteWrapper_Write(s, p)
    \/ \E s \in WSess : flateWriteWrapper_Close(s)
    \/ \E r \in RSess, src \in Wires :
          ~ws[r].made /\ decompressNoContextTakeover(r, src, NIL)
    \/ \E r \in RSess, src \in Wires :
          ~ws[r].made /\ decompressContextTakeover(r, src, NumDicts)
    \/ \E r \in RSess : flateReadWrapper_Read(r, MaxBuf)
    \/ \E r \in RSess : flateReadWrapper_Close(r)

InitPool == InitTruncIdle /\ SessionsIdle(<<>>)

SpecPool == InitPool /\ [][NextPool]_vars

\* --------------------------------------------------------------- SpecCtx
\* One connection with context takeover in both directions: message i is
\* written through write session i on dictionary 1, then read through read
\* session i on dictionary NumDicts; both dictionaries start alike.
CtxLevels == {2}

NextCtx ==
    \/ \E s \in WSess, level \in CtxLevels :
          /\ s = 1 \/ rs[IF s = 1 THEN 1 ELSE s - 1].eof
          /\ compressContextTakeover(s, NewSink(FALSE, 0, FALSE), level, 1)
    \/ \E s \in WSess, p \in Chunks :
          ws[s].fw # NIL /\ flateWriteWrapper_Write(s, p)
    \/ \E s \in WSess : ws[s].fw # NIL /\ flateWriteWrapper_Close(s)
    \/ \E r \in RSess :
          /\ ws[r].closeCalled
          /\ decompressContextTakeover(r, ws[r].tw.w.data, NumDicts)
    \/ \E r \in RSess, k \in 1..MaxBuf :
          rs[r].fr # NIL /\ flateReadWrapper_Read(r, k)

SpecCtx == Init /\ [][NextCtx]_vars

\* --------------------------------------------------------------- SpecMix
\* Write sessions of both kinds side by side, over sinks that work, that
\* fail to write, that fail to close and that fail in both after one write;
\* a session is opened once the one before it has been closed.
MixSinks == {NewSink(FALSE, 0, FALSE), NewSink(TRUE, 0, FALSE),
             NewSink(FALSE, 0, TRUE), NewSink(TRUE, 1, TRUE)}

NextMix ==
    \/ \E s \in WSess, sk \in MixSinks, level \in PoolLevels :
          /\ s = 1 \/ ws[IF s = 1 THEN 1 ELSE s - 1].closeCalled
          /\ compressNoContextTakeover(s, sk, level, NIL)
    \/ \E s \in WSess, sk \in MixSinks, level \in PoolLevels :
          /\ s = 1 \/ ws[IF s = 1 THEN 1 ELSE s - 1].closeCalled
          /\ compressContextTakeover(s, sk, level, 1)
    \/ \E s \in WSess, p \in PoolChunks :
          ws[s].plain = <<>> /\ flateWriteWrapper_Write(s, p)
    \/ \E s \in WSess : flateWriteWrapper_Close(s)

SpecMix == InitPool /\ [][NextMix]_vars

\* C2: while every downstream write succeeds, after each Write the sink has
\* received the stream written so far without its last min(4, length) bytes,
\* in order, and the buffer retains exactly those last bytes.
C2_TruncForwardsAllButTail ==
    twLast.err = "nil" =>
        LET k == Min(Len(tw0.p), Len(twIn))
        IN  /\ tw0.w.data = Take(twIn, Len(twIn) - k)
            /\ tw0.n = k
            /\ Take(tw0.p, k) = LastN(twIn, Len(tw0.p))

\* a second Write, of a chunk shorter than the buffer, on a stream longer
\* than the buffer, every downstream write having succeeded
C2_Witness ==
    /\ twLast.err = "nil"
    /\ twLast.calls = 2
    /\ twLast.len \in 1..3
    /\ Len(twIn) > 2 * Len(tw0.p)
    /\ tw0.w.data # <<>>

\* how often compressor c lies in the writer pools, all levels together
RECURSIVE PooledUpTo(_, _)
PooledUpTo(c, i) ==
    IF i = 0 THEN 0 ELSE flateWriterPools[i][c] + PooledUpTo(c, i - 1)
Pooled(c) == PooledUpTo(c, NumPools)

\* C1: once Close has been called on a write or read session, every later
\* Write, Read or Close on it returns the closed error (errWriteClosed,
\* io.ErrClosedPipe) and changes nothing: no flush, no close of the sink or
\* of the decompressor, no Put, no change of a dictionary.
C1_ClosedIsTerminal ==
    [][ /\ \A s \in WSess :
            (ws[s].closeCalled /\ last'.side = "w" /\ last'.s = s) =>
                /\ last'.err = "errWriteClosed"
                /\ last'.n = 0
                /\ UNCHANGED <<ws, rs, comp, decomp, flateWriterPools,
                               flateReaderPool, dicts, fed>>
        /\ \A r \in RSess :
            (rs[r].closeCalled /\ last'.side = "r" /\ last'.s = r) =>
                /\ last'.err = "ErrClosedPipe"
                /\ last'.n = 0
                /\ UNCHANGED <<ws, rs, comp, decomp, flateWriterPools,
                               flateReaderPool, dicts, fed>> ]_vars

\* a Read on a read session that was closed at end-of-stream, after the
\* write session was closed with success and saw a later Write or Close
C1_Witness ==
    /\ ws[1].closeRes = "nil"
    /\ ws[1].flushes = 1
    /\ ws[1].tw.w.closed = 1
    /\ rs[1].closeCalled
    /\ rs[1].frCloses = 1
    /\ last = Call("r", "Read", 1, 0, "ErrClosedPipe", 0)

C4_DictIsWindowOfHistory ==
    \A d \in DictIds :
        /\ Len(dicts[d]) <= maxWindowBits
        /\ dicts[d] = LastN(fed[d], maxWindowBits)

\* both dictionaries have been fed more than a window, by a context-takeover
\* write session and by a context-takeover read session
C4_Witness ==
    /\ ws[1].hasDict
    /\ rs[1].hasDict
    /\ Len(fed[1]) > maxWindowBits
    /\ Len(fed[NumDicts]) > maxWindowBits
    /\ Len(ws[1].plain) > 0
    /\ Len(rs[1].out) > 0

\* C5: what a no-context-takeover write session closed with success put on
\* its sink, read through a no-context-takeover read session, is the payload
\* written: the decompressor is fed the compressor's whole output and the
\* final empty block, reports no error, and at end-of-stream has delivered
\* exactly the payload.
C5_RoundTripNoContext ==
    (/\ ws[1].made /\ ~ws[1].hasDict /\ ws[1].closeRes = "nil"
     /\ rs[1].made /\ ~rs[1].hasDict) =>
        /\ ws[1].tw.w.data \o trailer = ws[1].em
        /\ rs[1].out = Take(ws[1].plain, Len(rs[1].out))
        /\ rs[1].eof => rs[1].out = ws[1].plain
        /\ (last.side = "r" /\ last.op = "Read") =>
               last.err \in {"nil", "EOF", "ErrClosedPipe"}

\* a payload written in two chunks has been read back in two reads
C5_Witness ==
    /\ ~ws[1].hasDict /\ ws[1].closeRes = "nil"
    /\ rs[1].made /\ ~rs[1].hasDict
    /\ rs[1].eof
    /\ Len(ws[1].plain) = MaxPlain
    /\ rs[1].out = ws[1].plain
    /\ last.side = "r" /\ last.op = "Read" /\ last.err = "EOF" /\ last.n = 1

\* C7: the Read of a no-context-takeover read session that gets end-of-stream
\* closes the session and puts the decompressor into the pool, once; a later
\* Read or Close returns io.ErrClosedPipe and puts nothing.
C7_AutoCloseAtEOF ==
    \A r \in RSess :
        (rs[r].made /\ ~rs[r].hasDict /\ rs[r].eof) =>
            /\ rs[r].fr = NIL
            /\ rs[r].closeCalled
            /\ rs[r].puts = 1
            /\ rs[r].frCloses = 1
            /\ flateReaderPool[rs[r].got] = 1
            /\ (last.side = "r" /\ last.s = r) =>
                  \/ last.op = "Read" /\ last.err \in {"EOF", "ErrClosedPipe"}
                  \/ last.op = "Close" /\ last.err = "ErrClosedPipe"

\* an explicit Close after the Read that met end-of-stream
C7_Witness ==
    /\ rs[1].made /\ ~rs[1].hasDict /\ rs[1].eof
    /\ rs[1].puts = 1
    /\ last = Call("r", "Close", 1, 0, "ErrClosedPipe", 0)

\* C8: a compression level outside [minCompressionLevel, maxCompressionLevel]
\* makes the constructor report an invalid-configuration error: it neither
\* faults nor returns a session.
C8_InvalidLevelSurfaced ==
    (/\ last.op \in {"compressNoContextTakeover", "compressContextTakeover"}
     /\ ~isValidCompressionLevel(last.level)) =>
        /\ last.err = "errInvalidLevel"
        /\ ~ws[last.s].made

\* C9: the first Close of a write session closes the destination sink, once,
\* whatever the flush and the trailer comparison gave.
C9_FirstCloseClosesSink ==
    \A s \in WSess :
        (ws[s].closeCalled /\ isValidCompressionLevel(ws[s].level)) =>
            ws[s].tw.w.closed = 1

\* C10: the first Close returns nil only if the compressor emitted at least
\* four bytes into the truncWriter and the last four are 00 00 FF FF; when the
\* retained bytes are not the trailer it returns an error.
C10_SuccessOnlyWithTrailer ==
    \A s \in WSess :
        /\ ws[s].closeRes = "nil" =>
              /\ Len(ws[s].em) >= Len(trailer)
              /\ LastN(ws[s].em, Len(trailer)) = trailer
        /\ (ws[s].closeRes # "none" /\ ws[s].tw.p # trailer) => ws[s].closeRes # "nil"

\* a first Close that returned nil, and one refused for its retained bytes
C10_Witness ==
    /\ ws[1].closeRes = "nil"
    /\ Len(ws[1].plain) > 0
    /\ ws[1].tw.p = trailer
    /\ ws[1].tw.n = Len(trailer)

C10_WitnessMismatch ==
    /\ ws[1].closeRes = "errInternal"
    /\ ws[1].tw.p # trailer

\* C6: messages sent through successive context-takeover write sessions on
\* one dictionary and read in order through successive context-takeover read
\* sessions on another that started alike decompress to themselves, and at
\* every message boundary the two dictionaries hold the same bytes.
C6_RoundTripSharedHistory ==
    \A i \in WSess :
        rs[i].made =>
            /\ rs[i].out = Take(ws[i].plain, Len(rs[i].out))
            /\ (last.side = "r" /\ last.s = i) => last.err \in {"nil", "EOF"}
            /\ rs[i].eof => rs[i].out = ws[i].plain
            /\ (rs[i].eof /\ ~ws[IF i = NumSess THEN i ELSE i + 1].made)
                  => dicts[1] = dicts[NumDicts]
            /\ (rs[i].eof /\ i = NumSess) => dicts[1] = dicts[NumDicts]

\* the second message left as a back-reference into the first, which the
\* read side resolved from its own dictionary
C6_Witness ==
    /\ rs[2].eof
    /\ Len(ws[1].plain) > 0
    /\ fed[1] = ws[1].plain \o ws[2].plain
    /\ ws[2].tw.w.data # <<>>
    /\ ws[2].tw.w.data[1] = 2
    /\ rs[2].out = ws[2].plain
    /\ Len(rs[2].out) > 0
    /\ dicts[1] = dicts[NumDicts]

\* C11: a context-takeover read session that has been closed, at
\* end-of-stream or by Close, has put its decompressor back into
\* flateReaderPool.
C11_CtxReaderPooledOnClose ==
    \A r \in RSess :
        (rs[r].made /\ rs[r].hasDict /\ rs[r].closeCalled) =>
            /\ rs[r].puts = 1
            /\ flateReaderPool[rs[r].got] = 1

\* C12: the compressor made for a context-takeover write session lies in no
\* writer pool, whatever Write and Close calls the session has seen, and no
\* no-context-takeover session holds or has held it.
C12_CtxWriterNeverPooled ==
    \A s \in WSess :
        (ws[s].made /\ ws[s].hasDict /\ ws[s].got # NIL) =>
            /\ ws[s].puts = 0
            /\ Pooled(ws[s].got) = 0
            /\ \A t \in WSess :
                  (ws[t].made /\ ~ws[t].hasDict) => ws[t].got # ws[s].got

\* a context-takeover session was written to and closed, and a
\* no-context-takeover session at the same level was opened afterwards while
\* another compressor lay idle in the pool or none did
C12_Witness ==
    \E s, t \in WSess :
        /\ s < t
        /\ ws[s].hasDict /\ ws[s].got # NIL
        /\ ws[s].closeCalled /\ ws[s].flushes = 1
        /\ Len(ws[s].plain) > 0
        /\ ws[t].made /\ ~ws[t].hasDict
        /\ ws[t].level = ws[s].level
        /\ last.op = "compressNoContextTakeover" /\ last.s = t

\* C13: the compressor or decompressor a session holds is bound to that
\* session's own truncWriter or source and carries no error and no history but
\* the session's own (its dictionary, if any, and its own bytes), whether it
\* was made for the session or came out of a pool; so a closed session's sink
\* holds exactly what a new compressor would have produced for its payload.
C13_ResetOntoOwnSession ==
    /\ \A s \in WSess :
          (ws[s].made /\ ws[s].fw # NIL) =>
              /\ comp[ws[s].fw].st.dst = s
              /\ comp[ws[s].fw].st.err = "nil"
              /\ comp[ws[s].fw].st.level = ws[s].level
              /\ comp[ws[s].fw].st.hist \o comp[ws[s].fw].st.window = ws[s].plain
    /\ \A s \in WSess :
          ws[s].closeCalled =>
              /\ ws[s].closeRes = "nil"
              /\ ws[s].tw.w.data = Compress(ws[s].level, <<>>, ws[s].plain)
    /\ \A r \in RSess :
          (rs[r].made /\ rs[r].fr # NIL) =>
              /\ decomp[rs[r].fr].st.err \in {"nil", "EOF"}
              /\ (rs[r].out = <<>> /\ decomp[rs[r].fr].st.toRead = <<>>)
                    => /\ decomp[rs[r].fr].st.src \in {Source(w) : w \in Wires}
                       /\ decomp[rs[r].fr].st.err = "nil"
              /\ ~rs[r].hasDict =>
                    decomp[rs[r].fr].st.hist = rs[r].out \o decomp[rs[r].fr].st.toRead
              /\ rs[r].hasDict =>
                    \E k \in 0..Len(fed[rs[r].dict]) :
                        decomp[rs[r].fr].st.hist =
                            LastN(Take(fed[rs[r].dict], k), maxWindowBits)
                                \o rs[r].out \o decomp[rs[r].fr].st.toRead
    /\ \A r \in RSess :
          rs[r].eof => rs[r].out \in PoolChunks

\* a session has written through the compressor that a session closed before
\* it had written through
C13_Witness ==
    \E s, t \in WSess :
        /\ s # t
        /\ ws[s].closeCalled /\ Len(ws[s].plain) > 0
        /\ ws[t].fw # NIL /\ ws[t].fw = ws[s].got
        /\ Len(ws[t].plain) > 0
        /\ comp[ws[t].fw].st.dst = t

\* a read session has read to end-of-stream through a decompressor that came
\* out of the pool
C13_WitnessReader ==
    \E r \in RSess :
        /\ rs[r].eof /\ rs[r].out \in PoolChunks
        /\ \E s \in RSess : s # r /\ rs[s].closeCalled /\ rs[s].got = rs[r].got

\* C14: a Write of a context-takeover write session that returns an error
\* leaves every dictionary as it was before the call.
C14_FailedWriteKeepsDict ==
    [][ (last'.side = "w" /\ last'.op = "Write" /\ last'.err # "nil")
            => dicts' = dicts ]_vars

\* C15: the first Close of a no-context-takeover write session puts its
\* compressor into the pool once, into the bucket of the session's level,
\* whatever Close returns; a session that has not been closed has put
\* nothing; and every compressor idle in a bucket was made at that bucket's
\* level.
C15_PutOnceIntoOwnBucket ==
    /\ \A s \in WSess :
          (ws[s].made /\ ~ws[s].hasDict) =>
              /\ ws[s].p = PoolOf(ws[s].level)
              /\ ws[s].puts = IF ws[s].closeCalled THEN 1 ELSE 0
              /\ ws[s].closeCalled =>
                    \/ flateWriterPools[ws[s].p][ws[s].got] = 1
                    \/ \E t \in WSess :
                          /\ t > s
                          /\ ws[t].made /\ ~ws[t].hasDict
                          /\ ws[t].got = ws[s].got
                          /\ ws[t].level = ws[s].level
    /\ \A i \in 1..NumPools, c \in CompIds :
          flateWriterPools[i][c] > 0 =>
              /\ flateWriterPools[i][c] = 1
              /\ comp[c].alloc
              /\ PoolOf(comp[c].st.level) = i

\* a session at a level other than the default whose Close failed, followed
\* by a session at the same level that took its compressor out of the pool
C15_Witness ==
    \E s, t \in WSess :
        /\ s < t
        /\ ~ws[s].hasDict /\ ws[s].closeCalled
        /\ ws[s].closeRes \notin {"none", "nil"}
        /\ ws[s].level # defaultCompressionLevel
        /\ ws[t].made /\ ~ws[t].hasDict
        /\ ws[t].got = ws[s].got

\* Close has returned the sink's close error and the compressor is idle
C15_WitnessCloseErr ==
    \E s \in WSess :
        /\ ~ws[s].hasDict /\ ws[s].closeRes = "errSinkClose"
        /\ flateWriterPools[ws[s].p][ws[s].got] = 1

\* C16: the first Close of a write session returns the sink's close error
\* whenever the sink's Close was called and failed, and otherwise the
\* internal error when the retained bytes are not the trailer.
C16_SinkCloseErrorFirst ==
    \A s \in WSess :
        (ws[s].closeCalled /\ ws[s].got # NIL) =>
            /\ (ws[s].tw.w.closed > 0 /\ ws[s].tw.w.closeErr)
                  => ws[s].closeRes = "errSinkClose"
            /\ (~(ws[s].tw.w.closed > 0 /\ ws[s].tw.w.closeErr)
                 /\ ws[s].tw.p # trailer)
                  => ws[s].closeRes = "errInternal"

\* C17: a truncWriter.Write whose downstream writes all succeed returns the
\* length of the chunk it was given, and a nil error.
C17_TruncWriteCountsWholeChunk ==
    /\ ~tw0.w.limited => twLast.err = "nil"
    /\ (twLast.calls > 0 /\ twLast.err = "nil") => twLast.n = twLast.len

\* C18: a no-context-takeover session does no dictionary tracking: none of
\* its calls, the constructor included, changes a dictionary, whatever handle
\* the constructor was given, and its compressor or decompressor starts
\* without history, so that it never holds more history than the session's
\* own bytes.
C18_NoContextNoDictionary ==
    /\ [](/\ \A s \in WSess :
               (ws[s].made /\ ~ws[s].hasDict /\ ws[s].fw # NIL) =>
                   /\ ws[s].dict = NIL
                   /\ Len(comp[ws[s].fw].st.hist) + Len(comp[ws[s].fw].st.window)
                         <= Len(ws[s].plain)
          /\ \A r \in RSess :
               (rs[r].made /\ ~rs[r].hasDict /\ rs[r].fr # NIL) =>
                   /\ rs[r].dict = NIL
                   /\ decomp[rs[r].fr].st.hist
                         = rs[r].out \o decomp[rs[r].fr].st.toRead)
    /\ [][ (\/ last'.side = "w" /\ ~ws'[last'.s].hasDict
            \/ last'.side = "r" /\ ~rs'[last'.s].hasDict)
               => UNCHANGED <<dicts, fed>> ]_vars

\* a no-context-takeover write session and a no-context-takeover read
\* session, the latter given a handle to a dictionary that is not empty, have
\* written and read a payload
C18_Witness ==
    /\ ws[1].made /\ ~ws[1].hasDict /\ ws[1].closeRes = "nil"
    /\ Len(ws[1].plain) > 0
    /\ rs[1].made /\ ~rs[1].hasDict
    /\ rs[1].out = ws[1].plain
    /\ dicts[NumDicts] # <<>>
    /\ last.side = "r" /\ last.op = "Read"

\* the constructors have just been given a handle to a dictionary that is
\* not empty
C18_WitnessHandle ==
    /\ last.op \in {"compressNoContextTakeover", "decompressNoContextTakeover"}
    /\ last.err = "nil"
    /\ last.dict # NIL
    /\ dicts[last.dict] # <<>>

\* C19: in a context-takeover read session with a dictionary, a Read that
\* returns n > 0 bytes has appended those n bytes to the dictionary and
\* trimmed it, also when it met end-of-stream and closed the session; so the
\* dictionary is always the window over the decompressor's seed followed by
\* everything the session has returned, the whole message at end-of-stream.
C19_ReadFeedsDictionary ==
    /\ [](\A r \in RSess :
            (rs[r].made /\ rs[r].hasDict /\ rs[r].dict # NIL) =>
                /\ dicts[rs[r].dict] =
                      LastN(Take(decomp[rs[r].got].st.hist,
                                 Len(decomp[rs[r].got].st.hist)
                                    - Len(decomp[rs[r].got].st.toRead)),
                            maxWindowBits)
                /\ rs[r].eof => decomp[rs[r].got].st.toRead = <<>>)
    /\ [][ \A r \in RSess :
             (/\ rs[r].hasDict /\ rs[r].dict # NIL
              /\ last'.side = "r" /\ last'.op = "Read" /\ last'.s = r
              /\ last'.n > 0) =>
                 /\ Len(rs'[r].out) = Len(rs[r].out) + last'.n
                 /\ dicts'[rs[r].dict] =
                       LastN(dicts[rs[r].dict]
                                \o Drop(rs'[r].out, Len(rs[r].out)),
                             maxWindowBits) ]_vars

\* the Read that returned the last byte of a two-byte message together with
\* end-of-stream, on a dictionary that was not empty to begin with
C19_Witness ==
    /\ rs[1].hasDict /\ rs[1].dict # NIL
    /\ rs[1].eof /\ rs[1].fr = NIL
    /\ Len(rs[1].out) = MaxPlain
    /\ last.side = "r" /\ last.op = "Read" /\ last.err = "EOF" /\ last.n = 1
    /\ Len(fed[rs[1].dict]) > Len(rs[1].out)
    /\ dicts[rs[1].dict] = LastN(fed[rs[1].dict], maxWindowBits)

\* C20: a Write or Read on a context-takeover session that was constructed
\* with a nil dictionary handle completes without a fault.
C20_NilDictionaryNoFault ==
    /\ \A s \in WSess :
          (ws[s].made /\ ws[s].hasDict /\ ws[s].dict = NIL
           /\ last.side = "w" /\ last.s = s /\ last.op = "Write")
              => last.err # "panic"
    /\ \A r \in RSess :
          (rs[r].made /\ rs[r].hasDict /\ rs[r].dict = NIL
           /\ last.side = "r" /\ last.s = r /\ last.op = "Read")
              => last.err # "panic"

====
